---- MODULE Spec2Model ----
(***************************************************************************)
(* Pokemon Club Battle API (src/main.py): the trainers and battles tables, *)
(* the request handlers that write them (create_trainer, update_trainer,   *)
(* create_battle with _apply_battle_result) and the handlers that rank the *)
(* trainers (leaderboard, board, create_pairings).                         *)
(*                                                                         *)
(* Strings are sequences of character codes, compared the way the engine   *)
(* that does the comparison compares them: SQLite's default BINARY         *)
(* collation for ORDER BY, Python tuple/str comparison for sorted().       *)
(***************************************************************************)
EXTENDS Integers, Sequences, FiniteSets, TLC

VARIABLES
    trainers,   \* the trainers table: id -> [name, wins, losses, rank_points]
    battles,    \* the battles table: id -> [trainer1_id, trainer2_id, winner_id]
    resp,       \* the last request served one at a time, and its response
    sess        \* in-flight create_battle sessions (concurrent processing)

vars == <<trainers, battles, resp, sess>>

----------------------------------------------------------------------------
\* Bounds of the model

MaxTrainers == 3
MaxBattles == 1
MaxReqLen == 3

\* Identifiers a request may carry: every id the table can come to hold. An
\* id does not resolve until that many trainers are registered.
ReqIds == 1..MaxTrainers

\* Names as sequences of character codes: "a", "B"
Names == {<<97>>, <<66>>}

\* Optional[int] None in a Pairing (a bye); row ids start at 1.
None == 0

\* leaderboard(limit: int = 50)
DefaultLimit == 50

Workers == {"w1", "w2"}

----------------------------------------------------------------------------
\* Strings

\* str.lower() on one ASCII character
LowerChar(c) == IF c >= 65 /\ c <= 90 THEN c + 32 ELSE c

\* t.name.lower()
StrLower(s) == [i \in 1..Len(s) |-> LowerChar(s[i])]

MinOf(a, b) == IF a < b THEN a ELSE b

\* s < t, code point by code point; a proper prefix is smaller
StrLess(s, t) ==
    \E i \in 1..(MinOf(Len(s), Len(t)) + 1) :
        /\ \A j \in 1..(i - 1) : s[j] = t[j]
        /\ \/ i > Len(s) /\ i <= Len(t)
           \/ i <= Len(s) /\ i <= Len(t) /\ s[i] < t[i]

----------------------------------------------------------------------------
\* Tables

\* Trainer(name=...): wins, losses and rank_points take their column default 0
NewTrainer(name) == [name |-> name, wins |-> 0, losses |-> 0, rank_points |-> 0]

Exists(tid) == tid \in DOMAIN trainers

\* db.query(Trainer).filter(Trainer.id == tid).first(); None when no row
Lookup(tid) == IF Exists(tid) THEN tid ELSE None

RECURSIVE PermsOf(_)
\* A set as the sequences that list each of its elements once
PermsOf(S) ==
    IF S = {} THEN {<<>>}
    ELSE UNION {{Append(p, x) : p \in PermsOf(S \ {x})} : x \in S}

\* p lists each element of the set S once
IsOrderOf(p, S) == Len(p) = Cardinality(S) /\ {p[i] : i \in 1..Len(p)} = S

Response(op, req, status, detail, missing, body) ==
    [op |-> op, req |-> req, status |-> status, detail |-> detail, missing |-> missing, body |-> body]

NoResponse == Response("none", <<>>, 200, "", <<>>, <<>>)

Init ==
    /\ trainers = <<>>
    /\ battles = <<>>
    /\ resp = NoResponse
    /\ sess = [w \in Workers |-> [pc |-> "idle"]]

----------------------------------------------------------------------------
\* POST /trainers

create_trainer(name) ==
    /\ Len(trainers) < MaxTrainers
    /\ LET id == Len(trainers) + 1
           row == NewTrainer(name)
       IN /\ trainers' = Append(trainers, row)
          /\ resp' = Response("create_trainer", name, 200, "", <<>>, <<id, row>>)
    /\ UNCHANGED <<battles, sess>>

\* PATCH /trainers/{trainer_id}; update.dict(exclude_unset=True) holds name
\* when the body sets it ("value"), also when it sets it to null ("null").
update_trainer(tid, kind, name) ==
    /\ IF ~Exists(tid)
       THEN /\ resp' = Response("update_trainer", <<tid, kind, name>>, 404, "Trainer not found", <<>>, <<>>)
            /\ UNCHANGED trainers
       ELSE IF kind = "null"
       THEN \* name is nullable=False: the commit raises, nothing is written
            /\ resp' = Response("update_trainer", <<tid, kind, name>>, 500, "IntegrityError", <<>>, <<>>)
            /\ UNCHANGED trainers
       ELSE LET row == IF kind = "value" THEN [trainers[tid] EXCEPT !.name = name] ELSE trainers[tid]
            IN /\ trainers' = [trainers EXCEPT ![tid] = row]
               /\ resp' = Response("update_trainer", <<tid, kind, name>>, 200, "", <<>>, <<tid, row>>)
    /\ UNCHANGED <<battles, sess>>

----------------------------------------------------------------------------
\* POST /battles

BattleReqs == [trainer1_id : ReqIds, trainer2_id : ReqIds, winner_id : ReqIds]

\* create_battle's validation: the two early 400s
SelfBattle(b) == b.trainer1_id = b.trainer2_id

\* Variant: only a request without a winner is rejected
WinnerNotGiven(b) == b.winner_id = None

WinnerNotInBattle(b) == b.winner_id \notin {b.trainer1_id, b.trainer2_id}

\* Variant: "and" for "or"
InvalidTrainerIdsAll(t1, t2, winner) == t1 = None /\ t2 = None /\ winner = None

\* _apply_battle_result: if not t1 or not t2 or not winner
InvalidTrainerIds(t1, t2, winner) == t1 = None \/ t2 = None \/ winner = None

\* Variant: the comparison made with t1
LoserFirst(t1, t2, winner) == IF winner = t1 THEN t1 ELSE t2

\* loser = t1 if winner.id == t2.id else t2
Loser(t1, t2, winner) == IF winner = t2 THEN t1 ELSE t2

\* winner.wins += 1; winner.rank_points += 3
ApplyWin(row) == [row EXCEPT !.wins = @ + 1, !.rank_points = @ + 3]

\* Variant: the participation point forgotten
ApplyLossNoPoint(row) == [row EXCEPT !.losses = @ + 1]

\* loser.losses += 1; loser.rank_points += 1
ApplyLoss(row) == [row EXCEPT !.losses = @ + 1, !.rank_points = @ + 1]

\* The rows after the winner's and then the loser's attributes were updated
\* and committed.
Applied(rows, winner, loser) ==
    LET afterWin == [t \in DOMAIN rows |-> IF t = winner THEN ApplyWin(rows[t]) ELSE rows[t]]
    IN [t \in DOMAIN rows |-> IF t = loser THEN ApplyLoss(afterWin[t]) ELSE afterWin[t]]

\* The whole handler, one request at a time. The battle row is committed
\* (line 270) before _apply_battle_result looks the trainers up; SQLite does
\* not enforce the foreign keys unless the pragma is set, so the insert
\* succeeds for any ids.
create_battle(b) ==
    /\ Len(battles) < MaxBattles
    /\ IF SelfBattle(b)
       THEN /\ resp' = Response("create_battle", b, 400, "A trainer cannot battle themselves.", <<>>, <<>>)
            /\ UNCHANGED <<trainers, battles>>
       ELSE IF WinnerNotInBattle(b)
       THEN /\ resp' = Response("create_battle", b, 400, "Winner must be one of the two trainers.", <<>>, <<>>)
            /\ UNCHANGED <<trainers, battles>>
       ELSE /\ battles' = Append(battles, b)
            /\ LET t1 == Lookup(b.trainer1_id)
                   t2 == Lookup(b.trainer2_id)
                   winner == Lookup(b.winner_id)
               IN IF InvalidTrainerIds(t1, t2, winner)
                  THEN /\ resp' = Response("create_battle", b, 400, "Invalid trainer ID(s) in battle result.", <<>>, <<>>)
                       /\ UNCHANGED trainers
                  ELSE IF winner \notin {t1, t2}
                  THEN /\ resp' = Response("create_battle", b, 400, "Winner must be one of the two trainers.", <<>>, <<>>)
                       /\ UNCHANGED trainers
                  ELSE /\ trainers' = Applied(trainers, winner, Loser(t1, t2, winner))
                       /\ resp' = Response("create_battle", b, 200, "", <<>>, <<Len(battles) + 1, b>>)
    /\ UNCHANGED sess

----------------------------------------------------------------------------
\* Ranking

\* ORDER BY rank_points DESC, wins DESC, name ASC: row x sorts strictly before
\* row y. The name column has no COLLATE clause, so SQLite compares it with
\* BINARY collation, byte by byte.
OrderByLess(x, y) ==
    \/ x.rank_points > y.rank_points
    \/ x.rank_points = y.rank_points /\ x.wins > y.wins
    \/ x.rank_points = y.rank_points /\ x.wins = y.wins /\ StrLess(x.name, y.name)

\* Variant: the name compared as stored
SortKeyCaseSensitive(row) == <<0 - row.rank_points, 0 - row.wins, row.name>>

\* key=lambda t: (-t.rank_points, -t.wins, t.name.lower())
SortKey(row) == <<0 - row.rank_points, 0 - row.wins, StrLower(row.name)>>

\* Python's tuple comparison k1 < k2 of two sort keys
KeyLess(k1, k2) ==
    \/ k1[1] < k2[1]
    \/ k1[1] = k2[1] /\ k1[2] < k2[2]
    \/ k1[1] = k2[1] /\ k1[2] = k2[2] /\ StrLess(k1[3], k2[3])

\* One step of a stable sort: x goes behind every element whose key is not
\* greater than its own.
Insert(sorted, x) ==
    LET key == SortKey(trainers[x])
        k == Cardinality({i \in 1..Len(sorted) : ~KeyLess(key, SortKey(trainers[sorted[i]]))})
    IN SubSeq(sorted, 1, k) \o <<x>> \o SubSeq(sorted, k + 1, Len(sorted))

RECURSIVE Sorted(_)
\* sorted(trainers, key=...): stable, elements with equal keys keep the order
\* the query returned them in
Sorted(list) ==
    IF list = <<>> THEN <<>>
    ELSE Insert(Sorted(SubSeq(list, 1, Len(list) - 1)), list[Len(list)])

\* TrainerRead
TrainerRead(tid) ==
    [id |-> tid, name |-> trainers[tid].name, wins |-> trainers[tid].wins,
     losses |-> trainers[tid].losses, rank_points |-> trainers[tid].rank_points]

\* p is an order in which the ORDER BY query may return the table: rows the
\* ORDER BY terms do not separate come in any order.
OrderedQuery(p) ==
    /\ IsOrderOf(p, DOMAIN trainers)
    /\ \A i, j \in 1..Len(p) : i < j => ~OrderByLess(trainers[p[j]], trainers[p[i]])

\* GET /leaderboard
leaderboard(limit, p) ==
    /\ OrderedQuery(p)
    /\ resp' = Response("leaderboard", limit, 200, "", <<>>,
                        [i \in 1..MinOf(limit, Len(p)) |-> TrainerRead(p[i])])
    /\ UNCHANGED <<trainers, battles, sess>>

\* GET /board: one table row per trainer, in the query's order
board(p) ==
    /\ OrderedQuery(p)
    /\ resp' = Response("board", <<>>, 200, "", <<>>,
                        [i \in 1..Len(p) |-> <<trainers[p[i]].name, trainers[p[i]].wins,
                                               trainers[p[i]].losses, trainers[p[i]].rank_points>>])
    /\ UNCHANGED <<trainers, battles, sess>>

----------------------------------------------------------------------------
\* POST /pairings

PairingReqs == UNION {[1..k -> ReqIds] : k \in 0..MaxReqLen}

\* found_ids = {t.id for t in trainers}
FoundIds(ids) == {ids[i] : i \in 1..Len(ids)} \cap DOMAIN trainers

NotFound(ids, tid) == tid \notin FoundIds(ids)

\* missing = [tid for tid in request.trainer_ids if tid not in found_ids]
Missing(ids) ==
    LET miss(tid) == NotFound(ids, tid)
    IN SelectSeq(ids, miss)

RECURSIVE PairUp(_, _)
\* the while loop over trainers_sorted, from index i (1-based here)
PairUp(s, i) ==
    IF i > Len(s) THEN <<>>
    ELSE IF i + 1 <= Len(s)
    THEN <<[trainer1_id |-> s[i], trainer2_id |-> s[i + 1]]>> \o PairUp(s, i + 2)
    ELSE <<[trainer1_id |-> s[i], trainer2_id |-> None]>> \o PairUp(s, i + 1)

\* PairingResponse(pairings=pairings)
Pairings(rows) == PairUp(Sorted(rows), 1)

\* rows is the order in which the IN query returned the found trainers.
create_pairings(ids, rows) ==
    /\ IsOrderOf(rows, FoundIds(ids))
    /\ IF Len(ids) = 0
       THEN resp' = Response("create_pairings", ids, 400, "No trainer IDs provided.", <<>>, <<>>)
       ELSE IF Missing(ids) # <<>>
       THEN resp' = Response("create_pairings", ids, 404, "Some trainer IDs were not found", Missing(ids), <<>>)
       ELSE resp' = Response("create_pairings", ids, 200, "", <<>>, Pairings(rows))
    /\ UNCHANGED <<trainers, battles, sess>>

----------------------------------------------------------------------------
\* Requests processed one at a time

RegisterStep == \E name \in Names : create_trainer(name)

UpdateStep ==
    \E tid \in ReqIds :
        \/ \E kind \in {"unset", "null"} : update_trainer(tid, kind, <<>>)
        \/ \E name \in Names : update_trainer(tid, "value", name)

BattleStep == \E b \in BattleReqs : create_battle(b)

Next ==
    \/ RegisterStep
    \/ UpdateStep
    \/ BattleStep

Spec == Init /\ [][Next]_vars

----------------------------------------------------------------------------
\* One read request against a store

\* Battle records between two of the first n trainers, trainer1_id the
\* smaller id
PlayedBattles(n) ==
    {b \in [trainer1_id : 1..n, trainer2_id : 1..n, winner_id : 1..n] :
        b.trainer1_id < b.trainer2_id /\ ~WinnerNotInBattle(b)}

BattleRank(b) == (b.trainer1_id * (MaxTrainers + 1) + b.trainer2_id) * (MaxTrainers + 1) + b.winner_id

\* Up to MaxBattles such records, listed in a fixed order
Histories(n) ==
    UNION {{h \in [1..k -> PlayedBattles(n)] :
               \A i \in 1..(k - 1) : BattleRank(h[i]) <= BattleRank(h[i + 1])} : k \in 0..MaxBattles}

RECURSIVE AfterBattles(_, _)
\* The trainers table after create_battle was served for each record of h
AfterBattles(rows, h) ==
    IF h = <<>> THEN rows
    ELSE LET b == h[Len(h)]
             before == AfterBattles(rows, SubSeq(h, 1, Len(h) - 1))
         IN Applied(before, b.winner_id, Loser(b.trainer1_id, b.trainer2_id, b.winner_id))

\* The stores reached by registering n trainers and then posting the battles
\* of one history, before any read request is served
InitRank ==
    \E n \in 0..MaxTrainers :
        \E names \in [1..n -> Names], h \in Histories(n) :
            /\ trainers = AfterBattles([i \in 1..n |-> NewTrainer(names[i])], h)
            /\ battles = h
            /\ resp = NoResponse
            /\ sess = [w \in Workers |-> [pc |-> "idle"]]

\* A query returns the rows it finds in an order it is free to choose: some
\* order of the ids asked for, without those that have no row.
TableOrders == PermsOf(ReqIds)

PairingInputs ==
    UNION {{<<ids, order>> : order \in PermsOf({ids[i] : i \in 1..Len(ids)})} : ids \in PairingReqs}

LeaderboardStep ==
    \E limit \in {1, DefaultLimit}, order \in TableOrders : leaderboard(limit, SelectSeq(order, Exists))

BoardStep == \E order \in TableOrders : board(SelectSeq(order, Exists))

PairingStep == \E inp \in PairingInputs : create_pairings(inp[1], SelectSeq(inp[2], Exists))

\* Read requests served one after the other
NextReads ==
    \/ LeaderboardStep
    \/ BoardStep
    \/ PairingStep

SpecReads == InitRank /\ [][NextReads]_vars

\* The first read request alone: the read handlers leave the store as it is,
\* so a later request is served from the same store.
NextRank ==
    \/ resp = NoResponse /\ LeaderboardStep
    \/ resp = NoResponse /\ BoardStep
    \/ resp = NoResponse /\ PairingStep

SpecRank == InitRank /\ [][NextRank]_vars

----------------------------------------------------------------------------
\* Two create_battle requests served at the same time

\* FastAPI runs a def endpoint in a thread pool, each request with its own
\* Session (get_db). A step below is one round trip of one session to the
\* database. pysqlite opens no transaction for a SELECT, so the three
\* queries of _apply_battle_result hold no lock, and the commit writes the
\* columns the session changed, with the values it computed from the rows it
\* had loaded.

\* first() as the session keeps it: <<>> for None, else the row loaded
Loaded(tid) == IF Exists(tid) THEN <<trainers[tid]>> ELSE <<>>

\* create_battle up to db.refresh(db_battle)
InsertBattle(w, b) ==
    /\ sess[w].pc = "idle"
    /\ IF SelfBattle(b) \/ WinnerNotInBattle(b)
       THEN /\ sess' = [sess EXCEPT ![w] = [pc |-> "done", b |-> b, status |-> 400]]
            /\ UNCHANGED battles
       ELSE /\ battles' = Append(battles, b)
            /\ sess' = [sess EXCEPT ![w] = [pc |-> "t1", b |-> b]]
    /\ UNCHANGED <<trainers, resp>>

\* t1 = db.query(Trainer).filter(Trainer.id == battle.trainer1_id).first()
QueryTrainer1(w) ==
    /\ sess[w].pc = "t1"
    /\ sess' = [sess EXCEPT ![w] = [pc |-> "t2", b |-> sess[w].b, t1 |-> Loaded(sess[w].b.trainer1_id)]]
    /\ UNCHANGED <<trainers, battles, resp>>

\* t2 = db.query(Trainer).filter(Trainer.id == battle.trainer2_id).first()
QueryTrainer2(w) ==
    /\ sess[w].pc = "t2"
    /\ sess' = [sess EXCEPT ![w] = [pc |-> "winner", b |-> sess[w].b, t1 |-> sess[w].t1,
                                    t2 |-> Loaded(sess[w].b.trainer2_id)]]
    /\ UNCHANGED <<trainers, battles, resp>>

\* winner = db.query(...).first(): the row is t1's or t2's, which the session
\* holds already and does not load again; then the two checks.
QueryWinner(w) ==
    /\ sess[w].pc = "winner"
    /\ LET s == sess[w]
       IN IF s.t1 = <<>> \/ s.t2 = <<>>
          THEN sess' = [sess EXCEPT ![w] = [pc |-> "done", b |-> s.b, status |-> 400]]
          ELSE sess' = [sess EXCEPT ![w] = [pc |-> "commit", b |-> s.b, t1 |-> s.t1, t2 |-> s.t2]]
    /\ UNCHANGED <<trainers, battles, resp>>

\* The += lines on the loaded objects and db.commit(): one UPDATE per changed
\* row, setting the changed columns
CommitResult(w) ==
    /\ sess[w].pc = "commit"
    /\ LET s == sess[w]
           winner == s.b.winner_id
           loser == Loser(s.b.trainer1_id, s.b.trainer2_id, winner)
           won == ApplyWin(IF winner = s.b.trainer1_id THEN s.t1[1] ELSE s.t2[1])
           lost == ApplyLoss(IF loser = s.b.trainer1_id THEN s.t1[1] ELSE s.t2[1])
       IN /\ trainers' = [t \in DOMAIN trainers |->
                             IF t = winner
                             THEN [trainers[t] EXCEPT !.wins = won.wins, !.rank_points = won.rank_points]
                             ELSE IF t = loser
                             THEN [trainers[t] EXCEPT !.losses = lost.losses, !.rank_points = lost.rank_points]
                             ELSE trainers[t]]
          /\ sess' = [sess EXCEPT ![w] = [pc |-> "done", b |-> s.b, status |-> 200]]
    /\ UNCHANGED <<battles, resp>>

\* Some trainers registered, no battle posted yet
InitConc ==
    /\ \E n \in 0..MaxTrainers :
           \E names \in [1..n -> Names] : trainers = [i \in 1..n |-> NewTrainer(names[i])]
    /\ battles = <<>>
    /\ resp = NoResponse
    /\ sess = [w \in Workers |-> [pc |-> "idle"]]

NextConc ==
    \/ \E w \in Workers, b \in BattleReqs : InsertBattle(w, b)
    \/ \E w \in Workers : QueryTrainer1(w)
    \/ \E w \in Workers : QueryTrainer2(w)
    \/ \E w \in Workers : QueryWinner(w)
    \/ \E w \in Workers : CommitResult(w)

SpecConc == InitConc /\ [][NextConc]_vars

----------------------------------------------------------------------------
\* Properties

Stats(row) == <<row.wins, row.losses, row.rank_points>>

\* The request names two distinct existing trainers and one of them as winner
ValidBattle(b) ==
    /\ b.trainer1_id # b.trainer2_id
    /\ b.trainer1_id \in DOMAIN trainers
    /\ b.trainer2_id \in DOMAIN trainers
    /\ b.winner_id \in {b.trainer1_id, b.trainer2_id}

OtherOf(b) == IF b.winner_id = b.trainer1_id THEN b.trainer2_id ELSE b.trainer1_id

StatsUnchanged ==
    /\ DOMAIN trainers' = DOMAIN trainers
    /\ \A t \in DOMAIN trainers : Stats(trainers'[t]) = Stats(trainers[t])

\* C1: a create_battle request between two distinct existing trainers, the
\* winner one of them, succeeds and adds 1 win and 3 points to the winner,
\* 1 loss and 1 point to the loser, leaves the winner's losses and the loser's
\* wins alone and changes no other trainer, whichever position the winner is in.
C1_ResultApplied ==
    [][(resp'.op = "create_battle" /\ ValidBattle(resp'.req)) =>
          LET w == resp'.req.winner_id
              l == OtherOf(resp'.req)
          IN /\ resp'.status = 200
             /\ DOMAIN trainers' = DOMAIN trainers
             /\ trainers'[w] = [trainers[w] EXCEPT !.wins = @ + 1, !.rank_points = @ + 3]
             /\ trainers'[l] = [trainers[l] EXCEPT !.losses = @ + 1, !.rank_points = @ + 1]
             /\ \A t \in DOMAIN trainers \ {w, l} : trainers'[t] = trainers[t]]_vars

\* A battle won from the second position was applied while a third trainer
\* looked on.
C1_Witness ==
    /\ resp.op = "create_battle"
    /\ resp.status = 200
    /\ resp.req.winner_id = resp.req.trainer2_id
    /\ trainers[resp.req.winner_id].wins = 1
    /\ \E t \in DOMAIN trainers : t \notin {resp.req.trainer1_id, resp.req.trainer2_id}

\* C2: a create_battle request fails and leaves every trainer's wins, losses
\* and points as they were when a participant id has no row, the winner is
\* neither participant, or the two participant ids are equal.
C2_FailureKeepsStats ==
    [][(resp'.op = "create_battle" /\ ~ValidBattle(resp'.req)) =>
          resp'.status # 200 /\ StatsUnchanged]_vars

\* A request naming a trainer without a row was refused, with a registered
\* trainer in the other position.
C2_Witness ==
    /\ resp.op = "create_battle"
    /\ resp.status = 400
    /\ resp.req.trainer1_id \in DOMAIN trainers
    /\ resp.req.trainer2_id \notin DOMAIN trainers
    /\ resp.req.winner_id = resp.req.trainer1_id

RECURSIVE SumOf(_, _)
SumOf(f, S) ==
    IF S = {} THEN 0
    ELSE LET x == CHOOSE y \in S : TRUE IN f[x] + SumOf(f, S \ {x})

TotalWins == SumOf([t \in DOMAIN trainers |-> trainers[t].wins], DOMAIN trainers)

TotalLosses == SumOf([t \in DOMAIN trainers |-> trainers[t].losses], DOMAIN trainers)

\* C3: result application is all-or-nothing over the store, so every stored
\* battle has had its result applied: the number of stored battles equals
\* the sum of wins and the sum of losses.
C3_AllOrNothing == Len(battles) = TotalWins /\ Len(battles) = TotalLosses

\* C4: a failing create_battle reports NotFound (404), naming the ids, when a
\* participant has no row, and InvalidInput (400) for self-pairing and for a
\* winner who is neither participant.
C4_ErrorKinds ==
    (resp.op = "create_battle" /\ resp.status # 200) =>
        LET b == resp.req
            absent == {b.trainer1_id, b.trainer2_id} \ DOMAIN trainers
        IN IF b.trainer1_id # b.trainer2_id /\ b.winner_id \in {b.trainer1_id, b.trainer2_id}
           THEN /\ absent # {}
                /\ resp.status = 404
                /\ {resp.missing[i] : i \in 1..Len(resp.missing)} = absent
           ELSE resp.status = 400

StatsOk ==
    \A t \in DOMAIN trainers :
        /\ trainers[t].wins >= 0
        /\ trainers[t].losses >= 0
        /\ trainers[t].rank_points = 3 * trainers[t].wins + trainers[t].losses

\* A step leaves the table as it is, or: no trainer goes away, no counter
\* decreases, a counter changes only in a successful create_battle, and a new
\* trainer starts at 0.
StatsStep ==
    \/ trainers' = trainers
    \/ /\ DOMAIN trainers \subseteq DOMAIN trainers'
       /\ \A t \in DOMAIN trainers :
             /\ trainers'[t].wins >= trainers[t].wins
             /\ trainers'[t].losses >= trainers[t].losses
             /\ trainers'[t].rank_points >= trainers[t].rank_points
             /\ Stats(trainers'[t]) # Stats(trainers[t]) =>
                    resp'.op = "create_battle" /\ resp'.status = 200
       /\ \A t \in DOMAIN trainers' \ DOMAIN trainers : Stats(trainers'[t]) = <<0, 0, 0>>

BattlesOk ==
    \A i \in 1..Len(battles) :
        /\ battles[i].trainer1_id # battles[i].trainer2_id
        /\ battles[i].winner_id \in {battles[i].trainer1_id, battles[i].trainer2_id}

BattlesKept ==
    /\ Len(battles') >= Len(battles)
    /\ \A i \in 1..Len(battles) : battles'[i] = battles[i]

----------------------------------------------------------------------------
\* Properties of ranking and pairing

\* x ranks strictly before y: points descending, wins descending, name
\* ascending without regard to case
RankedBefore(x, y) ==
    LET a == trainers[x]
        b == trainers[y]
    IN \/ a.rank_points > b.rank_points
       \/ a.rank_points = b.rank_points /\ a.wins > b.wins
       \/ /\ a.rank_points = b.rank_points
          /\ a.wins = b.wins
          /\ StrLess(StrLower(a.name), StrLower(b.name))

\* The trainer at rank j of a pairing list
AtRank(body, j) ==
    IF j % 2 = 1 THEN body[(j + 1) \div 2].trainer1_id ELSE body[j \div 2].trainer2_id

PairingsFold(body, ids) ==
    LET asked == {ids[i] : i \in 1..Len(ids)}
        n == Cardinality(asked)
    IN /\ Len(body) = (n + 1) \div 2
       /\ {AtRank(body, j) : j \in 1..n} = asked
       /\ \A i, j \in 1..n : i < j => ~RankedBefore(AtRank(body, j), AtRank(body, i))
       /\ \A k \in 1..Len(body) : body[k].trainer1_id # body[k].trainer2_id
       /\ {k \in 1..Len(body) : body[k].trainer2_id = None} = IF n % 2 = 1 THEN {Len(body)} ELSE {}
       /\ n % 2 = 1 => \A t \in asked : ~RankedBefore(body[Len(body)].trainer1_id, t)

PairingsOk ==
    (/\ resp.op = "create_pairings"
     /\ resp.req # <<>>
     /\ \A i \in 1..Len(resp.req) : resp.req[i] \in DOMAIN trainers)
    => resp.status = 200 /\ PairingsFold(resp.body, resp.req)

\* C5: for a non-empty list of ids that all resolve, create_pairings returns
\* the distinct requested trainers in ranking order folded into consecutive
\* pairs, each trainer once and never against itself, with one bye, last and
\* for the lowest-ranked trainer, exactly when their number is odd; the store
\* is not modified.
C5_Pairings == []PairingsOk /\ [][trainers' = trainers /\ battles' = battles]_vars

\* Three trainers were paired: one pair and a bye, the ranking not the id order.
C5_Witness ==
    /\ resp.op = "create_pairings"
    /\ resp.status = 200
    /\ Len(resp.body) = 2
    /\ resp.body[2].trainer2_id = None
    /\ resp.body[1].trainer1_id > resp.body[1].trainer2_id
    /\ trainers[resp.body[1].trainer1_id].rank_points = trainers[resp.body[1].trainer2_id].rank_points

\* x comes before y in the list p
Before(p, x, y) == \E i, j \in 1..Len(p) : i < j /\ p[i] = x /\ p[j] = y

\* The ids of a pairing list in the order of its ranks
RankList(body) ==
    LET n == 2 * Len(body) - Cardinality({k \in 1..Len(body) : body[k].trainer2_id = None})
    IN [j \in 1..n |-> AtRank(body, j)]

IdSet(ids) == {ids[i] : i \in 1..Len(ids)}

\* The ranking puts one of x and y strictly before the other
Separated(x, y) == RankedBefore(x, y) \/ RankedBefore(y, x)

\* C6: leaderboard and pairing apply the same ranking: of any two trainers
\* both list and the ranking separates, the one the leaderboard places first
\* is placed first by the pairing sort.
C6_SameRanking ==
    [][(/\ resp.op = "leaderboard"
        /\ resp'.op = "create_pairings"
        /\ resp'.status = 200
        /\ trainers' = trainers) =>
          \A i, j \in 1..Len(resp.body) :
              (/\ i < j
               /\ resp.body[i].id \in IdSet(resp'.req)
               /\ resp.body[j].id \in IdSet(resp'.req)
               /\ Separated(resp.body[i].id, resp.body[j].id))
              => Before(RankList(resp'.body), resp.body[i].id, resp.body[j].id)]_vars

\* C9: on an unchanged store, two pairing requests for the same set of ids
\* get the same pairings, whatever order the store returns the rows in.
C9_Deterministic ==
    [][(/\ resp.op = "create_pairings"
        /\ resp'.op = "create_pairings"
        /\ resp.status = 200
        /\ IdSet(resp'.req) = IdSet(resp.req)
        /\ trainers' = trainers) =>
          resp'.body = resp.body]_vars

----------------------------------------------------------------------------
\* Property of concurrent result application

\* The table after create_battle(b) served alone on the table rows
ServedAlone(rows, b) ==
    IF \/ SelfBattle(b)
       \/ WinnerNotInBattle(b)
       \/ b.trainer1_id \notin DOMAIN rows
       \/ b.trainer2_id \notin DOMAIN rows
    THEN rows
    ELSE Applied(rows, b.winner_id, Loser(b.trainer1_id, b.trainer2_id, b.winner_id))

\* C10: when two create_battle requests are served concurrently, every
\* trainer ends with the wins, losses and points that serving the two
\* requests one after the other produces.
C10_Serializable ==
    (\A w \in Workers : sess[w].pc = "done") =>
        LET start == [t \in DOMAIN trainers |-> NewTrainer(trainers[t].name)]
            b1 == sess["w1"].b
            b2 == sess["w2"].b
        IN trainers \in {ServedAlone(ServedAlone(start, b1), b2),
                         ServedAlone(ServedAlone(start, b2), b1)}

====
